---- MODULE Spec2Model ----
(***************************************************************************)
(* Stochastic Outlier Selection (autotabular/algorithms/anomaly/sos.py).   *)
(*                                                                         *)
(* Numbers.  The code computes in IEEE double precision.  The model        *)
(* computes in a fixed-point arithmetic with the same special values:      *)
(* a finite number is an integer r standing for r / Scale, its magnitude   *)
(* is at most MaxFin (a larger result overflows to an infinity, a result   *)
(* smaller than 1 / Scale underflows to 0), and NaN, PosInf and NegInf     *)
(* follow the IEEE rules (0/0, Inf-Inf, 0*Inf and Inf/Inf are NaN,         *)
(* x/0 is an infinity, log 0 is -Inf, every comparison with NaN is false). *)
(* Products and quotients round toward zero.                               *)
(***************************************************************************)
EXTENDS Integers, Sequences, FiniteSets, TLC

Scale  == 2^10
MaxFin == 2^20
PosInf == 2^21
NegInf == -(2^21)
NaN    == 2^22

IsNaN(a) == a = NaN
IsInf(a) == a = PosInf \/ a = NegInf
IsFin(a) == ~IsNaN(a) /\ ~IsInf(a)

Mag(v) == IF v < 0 THEN -v ELSE v
Sgn(v) == IF v < 0 THEN -1 ELSE IF v > 0 THEN 1 ELSE 0

\* an exact integer result brought back into the representable range
Norm(v) == IF v > MaxFin THEN PosInf ELSE IF v < -MaxFin THEN NegInf ELSE v

FNeg(a) == IF IsNaN(a) THEN NaN ELSE -a

FAbs(a) == IF IsNaN(a) THEN NaN ELSE Mag(a)

FAdd(a, b) ==
  IF IsNaN(a) \/ IsNaN(b) THEN NaN
  ELSE IF IsInf(a) /\ IsInf(b) THEN (IF a = b THEN a ELSE NaN)
  ELSE IF IsInf(a) THEN a
  ELSE IF IsInf(b) THEN b
  ELSE Norm(a + b)

FSub(a, b) == FAdd(a, FNeg(b))

\* |a| * |b| / Scale without leaving the 32-bit integers
MulMag(a, b) ==
  LET x == Mag(a)
      y == Mag(b)
  IN (x \div Scale) * y + ((x % Scale) * y) \div Scale

FMul(a, b) ==
  IF IsNaN(a) \/ IsNaN(b) THEN NaN
  ELSE IF IsInf(a) \/ IsInf(b)
       THEN (IF a = 0 \/ b = 0 THEN NaN
             ELSE IF Sgn(a) * Sgn(b) > 0 THEN PosInf ELSE NegInf)
  ELSE Norm(Sgn(a) * Sgn(b) * MulMag(a, b))

FDiv(a, b) ==
  IF IsNaN(a) \/ IsNaN(b) THEN NaN
  ELSE IF IsInf(a) THEN (IF IsInf(b) THEN NaN
                         ELSE IF Sgn(a) * (IF b < 0 THEN -1 ELSE 1) > 0
                              THEN PosInf ELSE NegInf)
  ELSE IF IsInf(b) THEN 0
  ELSE IF b = 0 THEN (IF a = 0 THEN NaN ELSE IF a > 0 THEN PosInf ELSE NegInf)
  ELSE Norm(Sgn(a) * Sgn(b) * ((Mag(a) * Scale) \div Mag(b)))

\* comparisons: false as soon as an operand is NaN
FGt(a, b) == ~IsNaN(a) /\ ~IsNaN(b) /\ a > b
FLt(a, b) == ~IsNaN(a) /\ ~IsNaN(b) /\ a < b

\* ln 2 and the exponential of a reduced argument r in [0, ln 2)
Ln2 == (693147 * Scale) \div 1000000

ExpSeries(r) ==
  LET t1 == r
      t2 == (t1 * r) \div (2 * Scale)
      t3 == (t2 * r) \div (3 * Scale)
      t4 == (t3 * r) \div (4 * Scale)
      t5 == (t4 * r) \div (5 * Scale)
      t6 == (t5 * r) \div (6 * Scale)
  IN Scale + t1 + t2 + t3 + t4 + t5 + t6

\* np.exp
FExp(a) ==
  IF IsNaN(a) THEN NaN
  ELSE IF a = PosInf THEN PosInf
  ELSE IF a = NegInf THEN 0
  ELSE LET y == Mag(a)
           k == y \div Ln2
           e == ExpSeries(y % Ln2)
       IN IF a >= 0
          THEN (IF k > 10 THEN PosInf ELSE Norm(e * 2^k))
          ELSE (IF k > 10 THEN 0 ELSE (Scale * Scale) \div (e * 2^k))

\* the exponent k with 2^k <= v < 2^(k+1), for 1 <= v <= MaxFin
RECURSIVE Log2Floor(_)
Log2Floor(v) == IF v < 2 THEN 0 ELSE 1 + Log2Floor(v \div 2)

\* ln of a mantissa m in [Scale, 2 Scale): 2 (z + z^3/3 + z^5/5 + z^7/7),
\* z = (m - 1) / (m + 1)
LnSeries(m) ==
  LET z  == ((m - Scale) * Scale) \div (m + Scale)
      z2 == (z * z) \div Scale
      z3 == (z * z2) \div Scale
      z5 == (z3 * z2) \div Scale
      z7 == (z5 * z2) \div Scale
  IN 2 * (z + z3 \div 3 + z5 \div 5 + z7 \div 7)

\* np.log
FLn(a) ==
  IF IsNaN(a) THEN NaN
  ELSE IF a = PosInf THEN PosInf
  ELSE IF a < 0 THEN NaN
  ELSE IF a = 0 THEN NegInf
  ELSE LET k == Log2Floor(a)
           m == IF k >= 10 THEN a \div 2^(k - 10) ELSE a * 2^(10 - k)
       IN (k - 10) * Ln2 + LnSeries(m)

\* the largest r in lo..hi with r * r <= v
RECURSIVE ISqrt(_, _, _)
ISqrt(v, lo, hi) ==
  IF lo >= hi THEN lo
  ELSE LET mid == (lo + hi + 1) \div 2
       IN IF mid * mid <= v THEN ISqrt(v, mid, hi) ELSE ISqrt(v, lo, mid - 1)

\* np.sqrt
FSqrt(a) ==
  IF IsNaN(a) THEN NaN
  ELSE IF a = PosInf THEN PosInf
  ELSE IF a < 0 THEN NaN
  ELSE ISqrt(a * Scale, 0, 2^15)

(***************************************************************************)
(* Arrays.  A vector is a sequence of numbers, a matrix a sequence of rows *)
(* (indices start at 1 where numpy's start at 0).                          *)
(***************************************************************************)
\* a function on 1..n as an evaluated sequence
Array(f) == f \o <<>>

NRows(M) == Len(M)
NCols(M) == IF Len(M) = 0 THEN 0 ELSE Len(M[1])

\* np.sum of a vector (left to right from 0.0)
RECURSIVE SumTo(_, _)
SumTo(v, k) == IF k = 0 THEN 0 ELSE FAdd(SumTo(v, k - 1), v[k])
Sum(v) == SumTo(v, Len(v))

\* np.prod of a vector (left to right from 1.0)
RECURSIVE ProdTo(_, _)
ProdTo(v, k) == IF k = 0 THEN Scale ELSE FMul(ProdTo(v, k - 1), v[k])
Prod(v) == ProdTo(v, Len(v))

\* the column indices of row i without i itself, in increasing order:
\* np.concatenate((np.r_[0:i], np.r_[i + 1:n]))
OffDiag(i, n) == Array([k \in 1..(n - 1) |-> IF k < i THEN k ELSE k + 1])

(***************************************************************************)
(* _get_perplexity(D, beta): the kernel row A and its entropy H.           *)
(***************************************************************************)
get_perplexity(Di, beta) ==
  LET A    == Array([k \in 1..Len(Di) |-> FExp(FMul(FNeg(Di[k]), beta))])
      sumA == Sum(A)
      DA   == Array([k \in 1..Len(Di) |-> FMul(Di[k], A[k])])
      H    == FAdd(FLn(sumA), FDiv(FMul(beta, Sum(DA)), sumA))
  IN [H |-> H, A |-> A]

(***************************************************************************)
(* _x2d: the dissimilarity matrix of X under the configured metric, or the *)
(* error the call ends with.                                               *)
(***************************************************************************)
\* the metric names of scipy.spatial.distance that the model computes
ScipyMetrics == {"cityblock"}

\* np.sum(np.square(X), 1)
SumSquares(X) ==
  Array([i \in 1..NRows(X) |->
          Sum([k \in 1..NCols(X) |-> FMul(X[i][k], X[i][k])])])

\* np.dot(X, X.T)
Gram(X) ==
  Array([i \in 1..NRows(X) |->
    Array([j \in 1..NRows(X) |->
            Sum([k \in 1..NCols(X) |-> FMul(X[i][k], X[j][k])])])])

\* the squared distances without the transposition between the two additions
Euclidean_untransposed(X) ==
  LET sumX == SumSquares(X)
      G    == Gram(X)
  IN Array([i \in 1..NRows(X) |->
       Array([j \in 1..NRows(X) |->
         FSqrt(FAbs(FAdd(FAdd(FMul(-2 * Scale, G[i][j]), sumX[j]), sumX[j])))])])

\* the distances with the value under the root clamped at zero, max(0, .)
Euclidean_clamped(X) ==
  LET sumX == SumSquares(X)
      G    == Gram(X)
  IN Array([i \in 1..NRows(X) |->
       Array([j \in 1..NRows(X) |->
         LET r == FAdd(FAdd(FMul(-2 * Scale, G[j][i]), sumX[i]), sumX[j])
         IN FSqrt(IF FLt(r, 0) THEN 0 ELSE r)])])

\* np.sqrt(np.abs(np.add(np.add(-2 * np.dot(X, X.T), sumX).T, sumX)))
Euclidean(X) ==
  LET sumX == SumSquares(X)
      G    == Gram(X)
  IN Array([i \in 1..NRows(X) |->
       Array([j \in 1..NRows(X) |->
         FSqrt(FAbs(FAdd(FAdd(FMul(-2 * Scale, G[j][i]), sumX[i]), sumX[j])))])])

\* distance.squareform(distance.pdist(X, 'cityblock')): pdist computes the
\* distances of the pairs i < j, squareform mirrors them around a zero diagonal
PdistCityblock(X, i, j) ==
  Sum([k \in 1..NCols(X) |-> FAbs(FSub(X[i][k], X[j][k]))])

SquareformPdist(X) ==
  Array([i \in 1..NRows(X) |->
    Array([j \in 1..NRows(X) |->
      IF i = j THEN 0
      ELSE IF i < j THEN PdistCityblock(X, i, j) ELSE PdistCityblock(X, j, i)])])

\* x2d with the pass-through metric looked up under the name "precomputed"
x2d_precomputed(X, metric) ==
  IF metric = "precomputed"
  THEN (IF NRows(X) # NCols(X)
        THEN [err |-> "shape_error", D |-> <<>>]
        ELSE [err |-> "ok", D |-> X])
  ELSE IF metric = "euclidean"
  THEN [err |-> "ok", D |-> Euclidean(X)]
  ELSE IF metric \in ScipyMetrics
  THEN [err |-> "ok", D |-> SquareformPdist(X)]
  ELSE [err |-> "unknown_metric_error", D |-> <<>>]

x2d(X, metric) ==
  IF metric = "none"
  THEN (IF NRows(X) # NCols(X)
        THEN [err |-> "shape_error", D |-> <<>>]
        ELSE [err |-> "ok", D |-> X])
  ELSE IF metric = "euclidean"
  THEN [err |-> "ok", D |-> Euclidean(X)]
  ELSE IF metric \in ScipyMetrics
  THEN [err |-> "ok", D |-> SquareformPdist(X)]
  ELSE [err |-> "unknown_metric_error", D |-> <<>>]

(***************************************************************************)
(* _d2a: the per-row search for the precision beta.                        *)
(***************************************************************************)
max_tries == 5000

\* the start of a row's search from beta = 2
RowStart_from_two(Di, logU) ==
  LET beta == 2 * Scale
      p    == get_perplexity(Di, beta)
  IN [beta |-> beta, betamin |-> NegInf, betamax |-> PosInf,
      thisA |-> p.A, Hdiff |-> FSub(p.H, logU), tries |-> 0]

\* lines 188-195: the state of row i's search before the loop
RowStart(Di, logU) ==
  LET beta == Scale
      p    == get_perplexity(Di, beta)
  IN [beta |-> beta, betamin |-> NegInf, betamax |-> PosInf,
      thisA |-> p.A, Hdiff |-> FSub(p.H, logU), tries |-> 0]

\* the loop test with the cap compared inclusively
LoopCond_inclusive(s, eps) ==
  (IsNaN(s.Hdiff) \/ FGt(FAbs(s.Hdiff), eps)) /\ s.tries <= max_tries

\* lines 196-197: the loop test
LoopCond(s, eps) ==
  (IsNaN(s.Hdiff) \/ FGt(FAbs(s.Hdiff), eps)) /\ s.tries < max_tries

\* lines 198, 200, 207: the branch an iteration takes
Branch(s) ==
  IF IsNaN(s.Hdiff) THEN "nan" ELSE IF FGt(s.Hdiff, 0) THEN "up" ELSE "down"

\* the update that does not record the lower bound when Hdiff > 0
Adjust_keeps_betamin(s) ==
  IF IsNaN(s.Hdiff)
  THEN [beta |-> FDiv(s.beta, 10 * Scale),
        betamin |-> s.betamin, betamax |-> s.betamax]
  ELSE IF FGt(s.Hdiff, 0)
  THEN [beta |-> IF IsInf(s.betamax) THEN FMul(s.beta, 2 * Scale)
                 ELSE FDiv(FAdd(s.beta, s.betamax), 2 * Scale),
        betamin |-> s.betamin, betamax |-> s.betamax]
  ELSE [beta |-> IF IsInf(s.betamin) THEN FDiv(s.beta, 2 * Scale)
                 ELSE FDiv(FAdd(s.beta, s.betamin), 2 * Scale),
        betamin |-> s.betamin, betamax |-> s.beta]

\* the update that forgets the bounds when Hdiff is NaN
Adjust_nan_resets(s) ==
  IF IsNaN(s.Hdiff)
  THEN [beta |-> FDiv(s.beta, 10 * Scale),
        betamin |-> NegInf, betamax |-> PosInf]
  ELSE IF FGt(s.Hdiff, 0)
  THEN [beta |-> IF IsInf(s.betamax) THEN FMul(s.beta, 2 * Scale)
                 ELSE FDiv(FAdd(s.beta, s.betamax), 2 * Scale),
        betamin |-> s.beta, betamax |-> s.betamax]
  ELSE [beta |-> IF IsInf(s.betamin) THEN FDiv(s.beta, 2 * Scale)
                 ELSE FDiv(FAdd(s.beta, s.betamin), 2 * Scale),
        betamin |-> s.betamin, betamax |-> s.beta]

\* lines 198-212: the new beta and bounds
Adjust(s) ==
  IF IsNaN(s.Hdiff)
  THEN [beta |-> FDiv(s.beta, 10 * Scale),
        betamin |-> s.betamin, betamax |-> s.betamax]
  ELSE IF FGt(s.Hdiff, 0)
  THEN [beta |-> IF IsInf(s.betamax) THEN FMul(s.beta, 2 * Scale)
                 ELSE FDiv(FAdd(s.beta, s.betamax), 2 * Scale),
        betamin |-> s.beta, betamax |-> s.betamax]
  ELSE [beta |-> IF IsInf(s.betamin) THEN FDiv(s.beta, 2 * Scale)
                 ELSE FDiv(FAdd(s.beta, s.betamin), 2 * Scale),
        betamin |-> s.betamin, betamax |-> s.beta]

\* lines 198-216: one iteration of the loop
LoopBody(s, Di, logU) ==
  LET a == Adjust(s)
      p == get_perplexity(Di, a.beta)
  IN [beta |-> a.beta, betamin |-> a.betamin, betamax |-> a.betamax,
      thisA |-> p.A, Hdiff |-> FSub(p.H, logU), tries |-> s.tries + 1]

\* an iteration that changed nothing but tries: the loop body is a function
\* of (beta, betamin, betamax, Hdiff), so every later iteration repeats it
Stalled(s, t) == t = [s EXCEPT !.tries = t.tries]

\* lines 196-216: the while loop from state s.  Every iteration adds one to
\* tries and the test fails once tries reaches max_tries, so the loop is over
\* after at most max_tries iterations; Iterate(k, ...) runs at most k of them
\* (split in halves to keep the evaluation shallow).  Once an iteration has
\* stalled, the remaining ones only count tries up to max_tries and leave the
\* state of that iteration: they are taken in one step.
RECURSIVE Iterate(_, _, _, _, _)
Iterate(k, s, Di, logU, eps) ==
  IF ~LoopCond(s, eps) THEN s
  ELSE IF k <= 1
  THEN LET t == LoopBody(s, Di, logU)
       IN IF Stalled(s, t) /\ t.tries < max_tries
          THEN [t EXCEPT !.tries = max_tries] ELSE t
  ELSE Iterate(k - k \div 2, Iterate(k \div 2, s, Di, logU, eps), Di, logU, eps)

\* lines 188-216 for one row: the state the loop ends in
RowSearch(Di, logU, eps) == Iterate(max_tries, RowStart(Di, logU), Di, logU, eps)

\* line 190: D[i, np.concatenate((np.r_[0:i], np.r_[i + 1:n]))]
RowOf(D, i) ==
  LET idx == OffDiag(i, NRows(D))
  IN Array([k \in 1..(NRows(D) - 1) |-> D[i][idx[k]]])

\* the row written from its first column on, whatever i is
WriteRow_from_first(thisA, i) ==
  Array([j \in 1..(Len(thisA) + 1) |-> IF j <= Len(thisA) THEN thisA[j] ELSE 0])

\* line 219: A[i, np.concatenate((np.r_[0:i], np.r_[i + 1:n]))] = thisA, on
\* the row of zeros of line 182
WriteRow(thisA, i) ==
  LET idx == OffDiag(i, Len(thisA) + 1)
  IN Array([j \in 1..(Len(thisA) + 1) |->
             IF \E k \in 1..Len(thisA) : idx[k] = j
             THEN thisA[CHOOSE k \in 1..Len(thisA) : idx[k] = j]
             ELSE 0])

\* _d2a with a tolerance that grows with the index of the row
d2a_eps_by_row(D, perplexity, eps) ==
  LET logU == FLn(perplexity)
  IN Array([i \in 1..NRows(D) |->
             WriteRow(RowSearch(RowOf(D, i), logU, eps * i * i).thisA, i)])

\* lines 181-221
d2a(D, perplexity, eps) ==
  LET logU == FLn(perplexity)
  IN Array([i \in 1..NRows(D) |->
             WriteRow(RowSearch(RowOf(D, i), logU, eps).thisA, i)])

(***************************************************************************)
(* _a2b and _b2o.                                                          *)
(***************************************************************************)
\* the normalisation by the column sums, A / A.sum(axis=0)
a2b_columns(A) ==
  Array([i \in 1..NRows(A) |->
    Array([j \in 1..NCols(A) |->
            FDiv(A[i][j], Sum(Array([k \in 1..NRows(A) |-> A[k][j]])))])])

\* the normalisation with a row of zeros left as it is
a2b_masked(A) ==
  Array([i \in 1..NRows(A) |->
    Array([j \in 1..NCols(A) |->
            IF Sum(A[i]) = 0 THEN 0 ELSE FDiv(A[i][j], Sum(A[i]))])])

\* A / A.sum(axis=1)[:, np.newaxis]
a2b(A) ==
  Array([i \in 1..NRows(A) |->
    Array([j \in 1..NCols(A) |-> FDiv(A[i][j], Sum(A[i]))])])

\* the product along the rows, np.prod(1 - B, 1)
b2o_rows(B) ==
  Array([j \in 1..NRows(B) |->
    Prod(Array([i \in 1..NCols(B) |-> FSub(Scale, B[j][i])]))])

\* np.prod(1 - B, 0)
b2o(B) ==
  Array([j \in 1..NCols(B) |->
    Prod(Array([i \in 1..NRows(B) |-> FSub(Scale, B[i][j])]))])

(***************************************************************************)
(* The collaborators of the facade.                                        *)
(***************************************************************************)
\* check_array asking for two rows (ensure_min_samples=2)
check_array_two_rows(X) ==
  IF NRows(X) < 2 \/ NCols(X) < 1 THEN "validation_error"
  ELSE IF \E i \in 1..NRows(X) : \E k \in 1..NCols(X) : ~IsFin(X[i][k])
  THEN "validation_error"
  ELSE "ok"

\* sklearn's check_array(X) with its default arguments: the array has at
\* least one row and one column and only finite entries
check_array(X) ==
  IF NRows(X) < 1 \/ NCols(X) < 1 THEN "validation_error"
  ELSE IF \E i \in 1..NRows(X) : \E k \in 1..NCols(X) : ~IsFin(X[i][k])
  THEN "validation_error"
  ELSE "ok"

FittedAttributes == {"decision_scores_", "threshold_", "labels_"}

\* sklearn's check_is_fitted(self, ['decision_scores_', 'threshold_', 'labels_'])
check_is_fitted(self) ==
  IF FittedAttributes \subseteq self.attrs THEN "ok" ELSE "not_fitted_error"

\* the decision-score processor: the threshold is the score below the top
\* contamination * n scores, the labels mark the scores above it
process_decision_scores(O, contamination) ==
  LET n == Len(O)
      k == (contamination * n) \div Scale
      t == IF \E j \in 1..n : IsNaN(O[j]) THEN NaN
           ELSE CHOOSE v \in {O[j] : j \in 1..n} :
                  /\ Cardinality({j \in 1..n : O[j] > v}) <= k
                  /\ Cardinality({j \in 1..n : O[j] >= v}) >= k + 1
  IN [threshold_ |-> t,
      labels_ |-> Array([j \in 1..n |-> IF FGt(O[j], t) THEN 1 ELSE 0])]

(***************************************************************************)
(* The four stages on a validated X (lines 274-277 and 303-306): the error *)
(* they end with, the stages started, the binding matrix and the scores.   *)
(***************************************************************************)
Stages(X, metric, perplexity, eps) ==
  LET d == x2d(X, metric)
  IN IF d.err # "ok"
     THEN [err |-> d.err, trace |-> <<"x2d">>, B |-> <<>>, O |-> <<>>]
     ELSE LET B == a2b(d2a(d.D, perplexity, eps))
          IN [err |-> "ok", trace |-> <<"x2d", "d2a", "a2b", "b2o">>,
              B |-> B, O |-> b2o(B)]

(***************************************************************************)
(* The configurations and the inputs of the model.                         *)
(***************************************************************************)
MaxN == 3

\* the coordinates of the points and the entries of the square inputs
Vals == {0, Scale}

\* n x 1 matrices, n = 0 .. MaxN (the matrix without rows is << >>)
ColumnInputs == UNION {[1..n -> [1..1 -> Vals]] : n \in 0..MaxN}
\* 2 x 2 matrices
SquareInputs == [1..2 -> [1..2 -> Vals]]
\* matrices with an entry that is not finite
NonFiniteInputs == {<< <<NaN>> >>, << <<0>>, <<PosInf>> >>}

\* a matrix as a sequence of sequences
Matrix(X) == Array([i \in 1..Len(X) |-> Array(X[i])])

Inputs ==
  {Matrix(X) : X \in ColumnInputs \cup SquareInputs \cup NonFiniteInputs}

\* the arguments of the constructor
MetricArgs     == {"euclidean", "NONE", "cityblock", "precomputed"}
Perplexities   == {(3 * Scale) \div 2}
EpsValues      == {8}
Contaminations == {(4 * Scale) \div 10}

\* str.lower on the metric names of the model
Lower(m) == IF m = "NONE" THEN "none" ELSE m

Metrics == {Lower(m) : m \in MetricArgs}

\* SOS.__init__ (lines 114-122): no fitted attribute exists yet
SOSInit(contamination, perplexity, metric, eps) ==
  [contamination |-> contamination, perplexity |-> perplexity,
   metric |-> Lower(metric), eps |-> eps,
   attrs |-> {}, decision_scores_ |-> <<>>, threshold_ |-> 0, labels_ |-> <<>>]

(***************************************************************************)
(* State.  Five machines share the variables; each specification runs      *)
(* one of them and leaves the variables of the others at rest.             *)
(***************************************************************************)
VARIABLES
  det,       \* the detector: its configuration and its fitted attributes
  call,      \* the last call: operation, argument, outcome, stages started
  fitted_on, \* << X >> for the X of the last fit that returned, << >> if none
  refit,     \* the last fit that returned replaced other fitted scores
  pipe,      \* one run of the four stages: X, configuration, D, A, B, O
  srch,      \* the search of one row of _d2a: Di, i, the loop's variables
  memo,      \* the outcome of the four stages on every input of the model
  perm,      \* two runs of the stages: on X and on X with its rows permuted
  rows       \* _d2a with the searches of its rows interleaved

vars == <<det, call, fitted_on, refit, pipe, srch, memo, perm, rows>>

NoCall == [op |-> "none", X |-> <<>>, err |-> "ok", ret |-> <<>>, trace |-> <<>>]
NoPipe == [stage |-> "off"]
NoSrch == [pc |-> "off"]
NoMemo == <<>>
NoPerm == [stage |-> "off"]
NoRows == [pc |-> "off"]

(***************************************************************************)
(* The stages are a function of X and of the configuration alone (they     *)
(* read self.metric, self.perplexity, self.eps and nothing else of the     *)
(* detector).  memo holds their outcome for the detector's configuration   *)
(* on every input that passes check_array; it is filled with the           *)
(* configuration and never written again.  StagesOf reads it.              *)
(***************************************************************************)
\* a function as an explicit table
Table(f) == f @@ <<>>

StagesTable(metric, perplexity, eps) ==
  Table([X \in {Y \in Inputs : check_array(Y) = "ok"}, m \in {metric},
         p \in {perplexity}, e \in {eps} |-> Stages(X, m, p, e)])

StagesOf(X, metric, perplexity, eps) == memo[X, metric, perplexity, eps]

(***************************************************************************)
(* SOS.fit and SOS.decision_function as functions of the detector and X:   *)
(* the detector after the call, the error the call ends with ("ok" when it *)
(* returns), the value returned (<< >> for fit, which returns self, and    *)
(* for a call that fails) and the stages started.                          *)
(***************************************************************************)
\* fit that runs the processor only on a detector that has no threshold yet
fit_keeps_threshold(self, X) ==
  LET st == StagesOf(X, self.metric, self.perplexity, self.eps)
      pr == process_decision_scores(st.O, self.contamination)
  IN IF check_array(X) # "ok"
     THEN [self |-> self, err |-> "validation_error", ret |-> <<>>,
           trace |-> <<"check_array">>]
     ELSE IF st.err # "ok"
     THEN [self |-> self, err |-> st.err, ret |-> <<>>,
           trace |-> <<"check_array", "set_n_classes">> \o st.trace]
     ELSE [self |-> IF "threshold_" \in self.attrs
                    THEN [self EXCEPT !.decision_scores_ = st.O]
                    ELSE [self EXCEPT !.attrs = FittedAttributes,
                                      !.decision_scores_ = st.O,
                                      !.threshold_ = pr.threshold_,
                                      !.labels_ = pr.labels_],
           err |-> "ok", ret |-> <<>>,
           trace |-> <<"check_array", "set_n_classes">> \o st.trace
                       \o <<"store", "process">>]

\* fit that calls the processor before and after it stores the scores
fit_processes_twice(self, X) ==
  LET st == StagesOf(X, self.metric, self.perplexity, self.eps)
      pr == process_decision_scores(st.O, self.contamination)
  IN IF check_array(X) # "ok"
     THEN [self |-> self, err |-> "validation_error", ret |-> <<>>,
           trace |-> <<"check_array">>]
     ELSE IF st.err # "ok"
     THEN [self |-> self, err |-> st.err, ret |-> <<>>,
           trace |-> <<"check_array", "set_n_classes">> \o st.trace]
     ELSE [self |-> [self EXCEPT !.attrs = FittedAttributes,
                                 !.decision_scores_ = st.O,
                                 !.threshold_ = pr.threshold_,
                                 !.labels_ = pr.labels_],
           err |-> "ok", ret |-> <<>>,
           trace |-> <<"check_array", "set_n_classes">> \o st.trace
                       \o <<"process", "store", "process">>]

\* fit that drops the fitted attributes when it fails
fit_forgets_on_error(self, X) ==
  LET st == StagesOf(X, self.metric, self.perplexity, self.eps)
      pr == process_decision_scores(st.O, self.contamination)
      blank == [self EXCEPT !.attrs = {}, !.decision_scores_ = <<>>,
                            !.threshold_ = 0, !.labels_ = <<>>]
  IN IF check_array(X) # "ok"
     THEN [self |-> blank, err |-> "validation_error", ret |-> <<>>,
           trace |-> <<"check_array">>]
     ELSE IF st.err # "ok"
     THEN [self |-> blank, err |-> st.err, ret |-> <<>>,
           trace |-> <<"check_array", "set_n_classes">> \o st.trace]
     ELSE [self |-> [self EXCEPT !.attrs = FittedAttributes,
                                 !.decision_scores_ = st.O,
                                 !.threshold_ = pr.threshold_,
                                 !.labels_ = pr.labels_],
           err |-> "ok", ret |-> <<>>,
           trace |-> <<"check_array", "set_n_classes">> \o st.trace
                       \o <<"store", "process">>]

fit(self, X) ==
  LET st == StagesOf(X, self.metric, self.perplexity, self.eps)
      pr == process_decision_scores(st.O, self.contamination)
  IN IF check_array(X) # "ok"
     THEN [self |-> self, err |-> "validation_error", ret |-> <<>>,
           trace |-> <<"check_array">>]
     ELSE IF st.err # "ok"
     THEN [self |-> self, err |-> st.err, ret |-> <<>>,
           trace |-> <<"check_array", "set_n_classes">> \o st.trace]
     ELSE [self |-> [self EXCEPT !.attrs = FittedAttributes,
                                 !.decision_scores_ = st.O,
                                 !.threshold_ = pr.threshold_,
                                 !.labels_ = pr.labels_],
           err |-> "ok", ret |-> <<>>,
           trace |-> <<"check_array", "set_n_classes">> \o st.trace
                       \o <<"store", "process">>]

\* decision_function that validates X before it looks at the fitted state
decision_function_validates_first(self, X) ==
  LET st == StagesOf(X, self.metric, self.perplexity, self.eps)
  IN IF check_array(X) # "ok"
     THEN [self |-> self, err |-> "validation_error", ret |-> <<>>,
           trace |-> <<"check_array">>]
     ELSE IF check_is_fitted(self) # "ok"
     THEN [self |-> self, err |-> "not_fitted_error", ret |-> <<>>,
           trace |-> <<"check_array", "check_is_fitted">>]
     ELSE [self |-> self, err |-> st.err,
           ret |-> IF st.err = "ok" THEN st.O ELSE <<>>,
           trace |-> <<"check_array", "check_is_fitted">> \o st.trace]

\* decision_function that answers from the training scores when X has as
\* many rows as the training data
decision_function_cached(self, X) ==
  LET st == StagesOf(X, self.metric, self.perplexity, self.eps)
  IN IF check_is_fitted(self) # "ok"
     THEN [self |-> self, err |-> "not_fitted_error", ret |-> <<>>,
           trace |-> <<"check_is_fitted">>]
     ELSE IF check_array(X) # "ok"
     THEN [self |-> self, err |-> "validation_error", ret |-> <<>>,
           trace |-> <<"check_is_fitted", "check_array">>]
     ELSE IF st.err = "ok" /\ NRows(X) = Len(self.decision_scores_)
     THEN [self |-> self, err |-> "ok", ret |-> self.decision_scores_,
           trace |-> <<"check_is_fitted", "check_array">>]
     ELSE [self |-> self, err |-> st.err,
           ret |-> IF st.err = "ok" THEN st.O ELSE <<>>,
           trace |-> <<"check_is_fitted", "check_array">> \o st.trace]

\* decision_function that stores the scores it returns
decision_function_stores(self, X) ==
  LET st == StagesOf(X, self.metric, self.perplexity, self.eps)
  IN IF check_is_fitted(self) # "ok"
     THEN [self |-> self, err |-> "not_fitted_error", ret |-> <<>>,
           trace |-> <<"check_is_fitted">>]
     ELSE IF check_array(X) # "ok"
     THEN [self |-> self, err |-> "validation_error", ret |-> <<>>,
           trace |-> <<"check_is_fitted", "check_array">>]
     ELSE [self |-> IF st.err = "ok"
                    THEN [self EXCEPT !.decision_scores_ = st.O] ELSE self,
           err |-> st.err,
           ret |-> IF st.err = "ok" THEN st.O ELSE <<>>,
           trace |-> <<"check_is_fitted", "check_array">> \o st.trace]

decision_function(self, X) ==
  LET st == StagesOf(X, self.metric, self.perplexity, self.eps)
  IN IF check_is_fitted(self) # "ok"
     THEN [self |-> self, err |-> "not_fitted_error", ret |-> <<>>,
           trace |-> <<"check_is_fitted">>]
     ELSE IF check_array(X) # "ok"
     THEN [self |-> self, err |-> "validation_error", ret |-> <<>>,
           trace |-> <<"check_is_fitted", "check_array">>]
     ELSE [self |-> self, err |-> st.err,
           ret |-> IF st.err = "ok" THEN st.O ELSE <<>>,
           trace |-> <<"check_is_fitted", "check_array">> \o st.trace]

(***************************************************************************)
(* Spec: one detector, called by one client.                               *)
(***************************************************************************)
Init ==
  /\ \E c \in Contaminations, p \in Perplexities, m \in MetricArgs,
        e \in EpsValues :
       /\ det = SOSInit(c, p, m, e)
       /\ memo = StagesTable(Lower(m), p, e)
  /\ call = NoCall
  /\ fitted_on = <<>>
  /\ refit = FALSE
  /\ pipe = NoPipe
  /\ srch = NoSrch
  /\ perm = NoPerm
  /\ rows = NoRows

Fit(X) ==
  \E r \in {fit(det, X)} :
     /\ det' = r.self
     /\ call' = [op |-> "fit", X |-> X, err |-> r.err, ret |-> r.ret,
                 trace |-> r.trace]
     /\ fitted_on' = IF r.err = "ok" THEN <<X>> ELSE fitted_on
     /\ refit' = IF r.err = "ok"
                 THEN fitted_on # <<>>
                      /\ r.self.decision_scores_ # det.decision_scores_
                 ELSE refit
     /\ UNCHANGED <<pipe, srch, memo, perm, rows>>

DecisionFunction(X) ==
  \E r \in {decision_function(det, X)} :
     /\ det' = r.self
     /\ call' = [op |-> "decision_function", X |-> X, err |-> r.err,
                 ret |-> r.ret, trace |-> r.trace]
     /\ UNCHANGED <<fitted_on, refit, pipe, srch, memo, perm, rows>>

Next ==
  \/ \E X \in Inputs : Fit(X)
  \/ \E X \in Inputs : DecisionFunction(X)

Spec == Init /\ [][Next]_vars

(***************************************************************************)
(* The claims about the detector (Spec).                                   *)
(***************************************************************************)
InTrace(t, stage) == \E k \in 1..Len(t) : t[k] = stage

\* the call reached _x2d
ReachedX2D == InTrace(call.trace, "x2d")

\* C1: decision_function on a detector on which no fit has returned fails
\* with the not-fitted error, and check_is_fitted is the only stage started:
\* no validation, dissimilarity, affinity, binding or score computation.
C1_NotFittedBeforeAnyStage ==
  (call.op = "decision_function" /\ fitted_on = <<>>) =>
    /\ call.err = "not_fitted_error"
    /\ call.trace = <<"check_is_fitted">>
    /\ call.ret = <<>>

\* C1: an unfitted detector was asked to score a valid X of several rows
C1_Witness ==
  /\ call.op = "decision_function"
  /\ fitted_on = <<>>
  /\ call.err = "not_fitted_error"
  /\ check_array(call.X) = "ok"
  /\ NRows(call.X) >= 2

\* C2: once a fit has returned, the three fitted attributes are the ones
\* derived from the X of the last fit that returned, whatever calls came
\* before and after it.
C2_FittedStateOfLastFit ==
  fitted_on # <<>> =>
    \E st \in {StagesOf(fitted_on[1], det.metric, det.perplexity, det.eps)} :
      \E pr \in {process_decision_scores(st.O, det.contamination)} :
        /\ det.attrs = FittedAttributes
        /\ det.decision_scores_ = st.O
        /\ det.threshold_ = pr.threshold_
        /\ det.labels_ = pr.labels_

\* C2: a fit has just returned on a detector that held other scores
C2_Witness ==
  /\ refit
  /\ call.op = "fit"
  /\ call.err = "ok"
  /\ fitted_on = <<call.X>>
  /\ det.decision_scores_ = StagesOf(call.X, det.metric, det.perplexity, det.eps).O

\* C3: the scores decision_function returned for X are the scores a detector
\* of the same configuration returns for X after a fit on any other
\* training data T.
C3_ScoresIndependentOfTraining ==
  (call.op = "decision_function" /\ call.err = "ok") =>
    \A T \in Inputs :
      \E f \in {fit(SOSInit(det.contamination, det.perplexity, det.metric,
                            det.eps), T)} :
        f.err = "ok" => decision_function(f.self, call.X).ret = call.ret

\* C3: scores were returned for an X that is not the training data, has as
\* many rows as the training data and has other scores
C3_Witness ==
  /\ call.op = "decision_function"
  /\ call.err = "ok"
  /\ fitted_on # <<call.X>>
  /\ Len(call.ret) = Len(det.decision_scores_)
  /\ call.ret # det.decision_scores_

\* C4: a decision_function call, returning or failing, leaves the detector
\* as it is; the detector changes only in a fit that returns.
C4_DecisionFunctionWritesNothing ==
  [][/\ call'.op = "decision_function" => det' = det
     /\ det' # det => (call'.op = "fit" /\ call'.err = "ok")]_vars

\* C4: decision_function returned scores that differ from the stored ones
C4_Witness ==
  /\ call.op = "decision_function"
  /\ call.err = "ok"
  /\ det.attrs = FittedAttributes
  /\ Len(call.ret) # Len(det.decision_scores_)

\* C5 as stated: under the metric name "precomputed" the dissimilarity
\* matrix of a non-square X fails with the shape error at _x2d.
C5_Original ==
  (/\ det.metric = "precomputed"
   /\ ReachedX2D
   /\ NRows(call.X) # NCols(call.X)) =>
    /\ call.err = "shape_error"
    /\ call.trace[Len(call.trace)] = "x2d"

\* C5 amended: the pass-through metric is the one named "none" (in any
\* letter case); under it a non-square X fails with the shape error at _x2d,
\* before any matrix is computed.  The name "precomputed" goes to the scipy
\* routine, which rejects it for every X.
C5_ShapeErrorUnderNone ==
  /\ (/\ det.metric = "none"
      /\ ReachedX2D
      /\ NRows(call.X) # NCols(call.X)) =>
       /\ call.err = "shape_error"
       /\ call.trace[Len(call.trace)] = "x2d"
       /\ call.ret = <<>>
  /\ (det.metric = "precomputed" /\ ReachedX2D) =>
       /\ call.err = "unknown_metric_error"
       /\ call.trace[Len(call.trace)] = "x2d"

\* C5: a fit on a 3 x 1 matrix under the pass-through metric
C5_Witness ==
  /\ det.metric = "none"
  /\ call.op = "fit"
  /\ NRows(call.X) = 3
  /\ NCols(call.X) = 1
  /\ call.err = "shape_error"

\* C6 as stated: fit rejects an X of fewer than 2 rows with the validation
\* error, runs no calibration and does not make the detector fitted.
C6_Original ==
  (call.op = "fit" /\ NRows(call.X) < 2) =>
    /\ call.err = "validation_error"
    /\ ~InTrace(call.trace, "d2a")
    /\ fitted_on # <<call.X>>

\* C6 amended: fit rejects an X without rows (or with an entry that is not
\* finite) with the validation error before any other stage, and the call
\* does not make the detector fitted; an X of exactly one row passes the
\* validation: under a metric that accepts it the calibration runs and the
\* detector becomes fitted.
C6_ValidatesBeforeStages ==
  /\ (call.op = "fit" /\ check_array(call.X) # "ok") =>
       /\ call.err = "validation_error"
       /\ call.trace = <<"check_array">>
       /\ fitted_on # <<call.X>>
       /\ (fitted_on = <<>> => det.attrs = {})
  /\ (call.op = "fit" /\ NRows(call.X) < 1) => check_array(call.X) # "ok"
  /\ (/\ call.op = "fit"
      /\ NRows(call.X) = 1
      /\ \A k \in 1..NCols(call.X) : IsFin(call.X[1][k])
      /\ x2d(call.X, det.metric).err = "ok") =>
       /\ call.err = "ok"
       /\ InTrace(call.trace, "d2a")
       /\ fitted_on = <<call.X>>
       /\ det.attrs = FittedAttributes

\* C6: a fit on one row returned and left a fitted detector
C6_Witness ==
  /\ call.op = "fit"
  /\ NRows(call.X) = 1
  /\ call.err = "ok"
  /\ det.attrs = FittedAttributes
  /\ det.decision_scores_ = <<NaN>>

\* the product of 1 - B[i, j] over the rows i = 1 .. n of column j
RECURSIVE ColumnProduct(_, _, _)
ColumnProduct(B, j, n) ==
  IF n = 0 THEN Scale ELSE FMul(ColumnProduct(B, j, n - 1), FSub(Scale, B[n][j]))

\* the product of 1 - B[j, i] over the columns i = 1 .. n of row j
RECURSIVE RowProduct(_, _, _)
RowProduct(B, j, n) ==
  IF n = 0 THEN Scale ELSE FMul(RowProduct(B, j, n - 1), FSub(Scale, B[j][n]))

\* the binding matrix of the call's X under the detector's configuration
CallB == StagesOf(call.X, det.metric, det.perplexity, det.eps).B

\* C8: the scores fit stores and the scores decision_function returns are,
\* entry by entry, the product of 1 - B[i, j] down column j of the binding
\* matrix, over all rows i including i = j.
C8_ScoresAreColumnProducts ==
  (call.op \in {"fit", "decision_function"} /\ call.err = "ok") =>
    \E B \in {CallB} :
      \E O \in {IF call.op = "fit" THEN det.decision_scores_ ELSE call.ret} :
        /\ Len(O) = NCols(B)
        /\ \A j \in 1..Len(O) : O[j] = ColumnProduct(B, j, NRows(B))

\* C8: decision_function returned the scores of a binding matrix without
\* NaN whose column products are not its row products
C8_Witness ==
  /\ call.op = "decision_function"
  /\ call.err = "ok"
  /\ \A j \in 1..Len(call.ret) : IsFin(call.ret[j])
  /\ \E j \in 1..Len(call.ret) :
       /\ call.ret[j] = ColumnProduct(CallB, j, NRows(CallB))
       /\ call.ret[j] # RowProduct(CallB, j, NCols(CallB))

\* how often a stage was started in a call
Count(t, stage) == Cardinality({k \in 1..Len(t) : t[k] = stage})

\* C13: a fit that returns has called the processor once, as its last step
\* and right after the scores were stored, and the threshold and the labels
\* are the processor's for the stored scores; a fit that fails and
\* decision_function have not called it.
C13_ProcessorOncePerFit ==
  /\ (call.op = "fit" /\ call.err = "ok") =>
       \E n \in {Len(call.trace)} :
         /\ Count(call.trace, "process") = 1
         /\ Count(call.trace, "store") = 1
         /\ call.trace[n] = "process"
         /\ call.trace[n - 1] = "store"
         /\ call.trace[n - 2] = "b2o"
         /\ \E pr \in {process_decision_scores(det.decision_scores_,
                                               det.contamination)} :
              det.threshold_ = pr.threshold_ /\ det.labels_ = pr.labels_
  /\ (call.op = "fit" /\ call.err # "ok") =>
       Count(call.trace, "process") = 0 /\ Count(call.trace, "store") = 0
  /\ call.op = "decision_function" =>
       Count(call.trace, "process") = 0 /\ Count(call.trace, "store") = 0

\* C13: a fit on three rows went through every stage and the processor, and
\* the threshold is one of the stored scores
C13_Witness ==
  /\ call.op = "fit"
  /\ call.err = "ok"
  /\ NRows(call.X) = 3
  /\ call.trace = <<"check_array", "set_n_classes", "x2d", "d2a", "a2b",
                    "b2o", "store", "process">>
  /\ \E j \in 1..3 : det.decision_scores_[j] = det.threshold_
  /\ \E j \in 1..3 : det.labels_[j] = 1

\* the three fitted attributes and their presence
FittedState(self) ==
  <<self.attrs, self.decision_scores_, self.threshold_, self.labels_>>

\* C20: a fit that fails with a validation or shape error leaves the fitted
\* state as it was: decision_scores_, threshold_ and labels_ keep the values
\* of the last successful fit, or stay absent, and then decision_function
\* still fails with the not-fitted error.
C20_FailedFitKeepsFittedState ==
  [][(call'.op = "fit" /\ call'.err \in {"validation_error", "shape_error"})
       => /\ FittedState(det') = FittedState(det)
          /\ fitted_on' = fitted_on
          /\ fitted_on = <<>> =>
               /\ det'.attrs = {}
               /\ \A X \in Inputs :
                    decision_function(det', X).err = "not_fitted_error"]_vars

\* C20: a fit of a matrix that is not square failed under the pass-through
\* metric on a detector that holds the scores of an earlier fit
C20_Witness ==
  /\ call.op = "fit"
  /\ call.err = "shape_error"
  /\ NRows(call.X) # NCols(call.X)
  /\ fitted_on # <<>>
  /\ det.attrs = FittedAttributes
  /\ Len(det.decision_scores_) = NRows(fitted_on[1])
  /\ NRows(fitted_on[1]) >= 2

(***************************************************************************)
(* PipeSpec: the four stages, one after the other, on a validated X.       *)
(***************************************************************************)
\* the coordinates of the points of the pipeline's inputs
PipeVals == {0, Scale, 3 * Scale}

\* the perplexities of the pipeline: one inside (1, n - 1), one far above n
PipePerplexities == {(3 * Scale) \div 2, 50 * Scale}

PipeInputs ==
  {Matrix(X) :
     X \in UNION {[1..n -> [1..1 -> PipeVals]] : n \in 1..MaxN}
            \cup SquareInputs}

PipeInit ==
  /\ \E X \in PipeInputs, m \in Metrics, p \in PipePerplexities,
        e \in EpsValues :
       pipe = [stage |-> "X", X |-> X, metric |-> m, perplexity |-> p,
               eps |-> e, err |-> "ok",
               D |-> <<>>, A |-> <<>>, B |-> <<>>, O |-> <<>>]
  /\ det = SOSInit(0, 0, "euclidean", 0)
  /\ call = NoCall
  /\ fitted_on = <<>>
  /\ refit = FALSE
  /\ srch = NoSrch
  /\ memo = NoMemo
  /\ perm = NoPerm
  /\ rows = NoRows

PipeX2D ==
  /\ pipe.stage = "X"
  /\ \E d \in {x2d(pipe.X, pipe.metric)} :
       pipe' = [pipe EXCEPT !.stage = IF d.err = "ok" THEN "D" ELSE "failed",
                             !.err = d.err, !.D = d.D]
  /\ UNCHANGED <<det, call, fitted_on, refit, srch, memo, perm, rows>>

PipeD2A ==
  /\ pipe.stage = "D"
  /\ pipe' = [pipe EXCEPT !.stage = "A",
                          !.A = d2a(pipe.D, pipe.perplexity, pipe.eps)]
  /\ UNCHANGED <<det, call, fitted_on, refit, srch, memo, perm, rows>>

PipeA2B ==
  /\ pipe.stage = "A"
  /\ pipe' = [pipe EXCEPT !.stage = "B", !.B = a2b(pipe.A)]
  /\ UNCHANGED <<det, call, fitted_on, refit, srch, memo, perm, rows>>

PipeB2O ==
  /\ pipe.stage = "B"
  /\ pipe' = [pipe EXCEPT !.stage = "O", !.O = b2o(pipe.B)]
  /\ UNCHANGED <<det, call, fitted_on, refit, srch, memo, perm, rows>>

PipeNext == PipeX2D \/ PipeD2A \/ PipeA2B \/ PipeB2O

PipeSpec == PipeInit /\ [][PipeNext]_vars

(***************************************************************************)
(* SearchSpec: the search of row i of _d2a (lines 186-219), one loop       *)
(* iteration per step.                                                     *)
(***************************************************************************)
MaxLen == 2

\* the rows D[i, j /= i] the search is run on
SearchRows == UNION {[1..n -> Vals] : n \in 0..MaxLen}

SearchInit ==
  /\ \E Di \in SearchRows, i \in 1..(MaxLen + 1), p \in PipePerplexities,
        e \in EpsValues :
       /\ i <= Len(Di) + 1
       /\ srch = [pc |-> "loop", Di |-> Array(Di), i |-> i, logU |-> FLn(p),
                  eps |-> e, s |-> RowStart(Array(Di), FLn(p)), row |-> <<>>,
                  last |-> "start", nan_seen |-> FALSE, tried |-> {}]
  /\ det = SOSInit(0, 0, "euclidean", 0)
  /\ call = NoCall
  /\ fitted_on = <<>>
  /\ refit = FALSE
  /\ pipe = NoPipe
  /\ memo = NoMemo
  /\ perm = NoPerm
  /\ rows = NoRows

\* one iteration of the while loop; last is the branch it took, nan_seen
\* whether a NaN branch was taken so far, tried the betas tried before s.beta
SearchStep ==
  /\ srch.pc = "loop"
  /\ LoopCond(srch.s, srch.eps)
  /\ srch' = [srch EXCEPT !.s = LoopBody(srch.s, srch.Di, srch.logU),
                          !.last = Branch(srch.s),
                          !.nan_seen = @ \/ IsNaN(srch.s.Hdiff),
                          !.tried = @ \cup {srch.s.beta}]
  /\ UNCHANGED <<det, call, fitted_on, refit, pipe, memo, perm, rows>>

\* the loop test fails: line 219 writes the row
SearchExit ==
  /\ srch.pc = "loop"
  /\ ~LoopCond(srch.s, srch.eps)
  /\ srch' = [srch EXCEPT !.pc = "done", !.row = WriteRow(srch.s.thisA, srch.i)]
  /\ UNCHANGED <<det, call, fitted_on, refit, pipe, memo, perm, rows>>

SearchNext == SearchStep \/ SearchExit

SearchSpec == SearchInit /\ [][SearchNext]_vars

(***************************************************************************)
(* The claims about the stages (PipeSpec).                                 *)
(***************************************************************************)
\* the sum of the off-diagonal entries of row i
OffDiagSum(M, i) ==
  Sum(Array([k \in 1..(NCols(M) - 1) |-> M[i][OffDiag(i, NCols(M))[k]]]))

\* a row of B sums to 1 up to one unit in the last place per entry
SumsToOne(M, i) ==
  \E t \in {OffDiagSum(M, i)} : IsFin(t) /\ t <= Scale /\ Scale - t <= NCols(M)

Binding == pipe.stage \in {"B", "O"}

\* C9 as stated: every row of A whose sum is not zero gives a row of B that
\* sums to 1 off the diagonal and has a zero on the diagonal.
C9_Original ==
  Binding =>
    \A i \in 1..NRows(pipe.A) :
      Sum(pipe.A[i]) # 0 => (pipe.B[i][i] = 0 /\ SumsToOne(pipe.B, i))

\* C9 amended: every row of A whose sum is a number other than zero (not
\* NaN) gives a row of B that sums to 1 off the diagonal and has a zero on
\* the diagonal; a row of A whose sum is NaN gives a row of B that is NaN in
\* every entry.
C9_RowsNormalised ==
  Binding =>
    \A i \in 1..NRows(pipe.A) :
      \E t \in {Sum(pipe.A[i])} :
        /\ (IsFin(t) /\ t # 0) => (pipe.B[i][i] = 0 /\ SumsToOne(pipe.B, i))
        /\ IsNaN(t) => \A j \in 1..NCols(pipe.B) : IsNaN(pipe.B[i][j])

\* C9: a matrix of three rows was normalised, one row with two different
\* entries off the diagonal
C9_Witness ==
  /\ Binding
  /\ NRows(pipe.A) = 3
  /\ \E i \in 1..3 :
       /\ IsFin(Sum(pipe.A[i])) /\ Sum(pipe.A[i]) # 0
       /\ \E j, k \in 1..3 : j # i /\ k # i /\ pipe.B[i][j] # pipe.B[i][k]
       /\ pipe.B[i][i] = 0

Symmetric(M) ==
  \A i \in 1..NRows(M) : \A j \in 1..NRows(M) : M[i][j] = M[j][i]

ZeroDiagonal(M) == \A i \in 1..NRows(M) : M[i][i] = 0

HasD == pipe.stage \in {"D", "A", "B", "O"}

\* C10 as stated: under every metric, the pass-through metric included, the
\* matrix D of a valid X is symmetric and has a zero diagonal.
C10_Original == HasD => (Symmetric(pipe.D) /\ ZeroDiagonal(pipe.D))

\* C10 amended: under the euclidean metric and the scipy metrics D is
\* symmetric and has a zero diagonal; under the pass-through metric "none" D
\* is X itself, whatever X holds.
C10_SymmetricUnlessPassThrough ==
  HasD =>
    /\ pipe.metric # "none" => (Symmetric(pipe.D) /\ ZeroDiagonal(pipe.D))
    /\ pipe.metric = "none" => pipe.D = pipe.X
    /\ NRows(pipe.D) = NRows(pipe.X) /\ NCols(pipe.D) = NRows(pipe.X)

\* C10: the euclidean distances of three points, two of them different
C10_Witness ==
  /\ HasD
  /\ pipe.metric = "euclidean"
  /\ NRows(pipe.D) = 3
  /\ pipe.D[1][2] # pipe.D[1][3]
  /\ pipe.D[1][2] # 0

\* C12: a row of A whose sum is zero raises nothing: the stages go on, row i
\* of B is NaN in every entry, and the score of i is NaN (with it every
\* score, row i being a factor of every column product).
C12_ZeroRowSumGivesNaN ==
  Binding =>
    /\ pipe.err = "ok"
    /\ \A i \in 1..NRows(pipe.A) :
         Sum(pipe.A[i]) = 0 =>
           /\ \A j \in 1..NCols(pipe.B) : IsNaN(pipe.B[i][j])
           /\ pipe.stage = "O" =>
                /\ IsNaN(pipe.O[i])
                /\ \A j \in 1..Len(pipe.O) : IsNaN(pipe.O[j])

\* C12: the stages ran to the scores on a matrix A with a row that sums to
\* zero, and the score of that row is NaN
C12_Witness ==
  /\ pipe.stage = "O"
  /\ pipe.err = "ok"
  /\ \E i \in 1..NRows(pipe.A) :
       /\ Sum(pipe.A[i]) = 0
       /\ IsNaN(pipe.B[i][i])
       /\ IsNaN(pipe.O[i])

\* the beta the search of row i of D ends with
FinalBeta(i) ==
  RowSearch(RowOf(pipe.D, i), FLn(pipe.perplexity), pipe.eps).beta

\* C17: A is n x n with A[i, i] = 0, and for j # i the entry A[i, j] is the
\* kernel value exp(-D[i, j] * beta) of D[i, j] for the beta row i's search
\* ended with: the kernel values are back in the columns their
\* dissimilarities came from.
C17_KernelInPlace ==
  pipe.stage \in {"A", "B", "O"} =>
    /\ NRows(pipe.A) = NRows(pipe.D)
    /\ \A i \in 1..NRows(pipe.D) :
         \E beta \in {FinalBeta(i)} :
           /\ Len(pipe.A[i]) = NRows(pipe.D)
           /\ pipe.A[i][i] = 0
           /\ \A j \in 1..NRows(pipe.D) :
                j # i => pipe.A[i][j] = FExp(FMul(FNeg(pipe.D[i][j]), beta))

\* C17: the matrix A of three points; in its middle row the kernel values
\* left and right of the diagonal differ
C17_Witness ==
  /\ pipe.stage = "A"
  /\ NRows(pipe.A) = 3
  /\ pipe.A[2][2] = 0
  /\ IsFin(pipe.A[2][1]) /\ IsFin(pipe.A[2][3])
  /\ pipe.A[2][1] # pipe.A[2][3]
  /\ pipe.A[2][3] # 0
  /\ pipe.D[2][1] # pipe.D[2][3]

(***************************************************************************)
(* The claims about the search (SearchSpec).                               *)
(***************************************************************************)
\* C7: the search of a row makes at most max_tries iterations: at the cap
\* the loop test fails whatever Hdiff is, nothing is raised, and what line
\* 219 writes is the kernel of the last beta; the search in one piece ends
\* in the same state.
C7_SearchStopsAtCap ==
  /\ srch.pc # "off" =>
       /\ srch.s.tries <= max_tries
       /\ srch.s.tries = max_tries => ~LoopCond(srch.s, srch.eps)
       /\ srch.s.thisA = get_perplexity(srch.Di, srch.s.beta).A
  /\ srch.pc = "done" =>
       /\ srch.row = WriteRow(srch.s.thisA, srch.i)
       /\ srch.s = RowSearch(srch.Di, srch.logU, srch.eps)

\* C7: the search of a row of two entries ended at the cap without having
\* converged, and the row was written
C7_Witness ==
  /\ srch.pc = "done"
  /\ srch.s.tries = max_tries
  /\ IsNaN(srch.s.Hdiff) \/ FGt(FAbs(srch.s.Hdiff), srch.eps)
  /\ Len(srch.Di) = 2
  /\ Len(srch.row) = 3
\* a step of the loop: the search goes from srch.s to srch'.s
IsSearchStep == srch.pc = "loop" /\ srch'.pc = "loop" /\ srch' # srch

\* the kernel and Hdiff of srch'.s are those of its beta, and the step counts
Recomputed ==
  \E q \in {get_perplexity(srch.Di, srch'.s.beta)} :
    /\ srch'.s.thisA = q.A
    /\ srch'.s.Hdiff = FSub(q.H, srch.logU)
    /\ srch'.s.tries = srch.s.tries + 1
    /\ srch'.Di = srch.Di /\ srch'.logU = srch.logU /\ srch'.eps = srch.eps

\* C14: a step taken with an Hdiff that is not NaN.  Hdiff > 0: betamin
\* becomes beta, beta is doubled while betamax is infinite and is the
\* midpoint of beta and betamax otherwise.  Hdiff < 0: betamax becomes beta,
\* beta is halved while betamin is infinite and is the midpoint of beta and
\* betamin otherwise.  The other bound stays, the kernel and Hdiff are those
\* of the new beta, tries grows by one.
C14_BisectionStep ==
  [][(IsSearchStep /\ ~IsNaN(srch.s.Hdiff)) =>
       /\ srch.s.Hdiff > 0 =>
            /\ srch'.s.betamin = srch.s.beta
            /\ srch'.s.betamax = srch.s.betamax
            /\ srch'.s.beta = IF srch.s.betamax \in {PosInf, NegInf}
                              THEN FMul(srch.s.beta, 2 * Scale)
                              ELSE FDiv(FAdd(srch.s.beta, srch.s.betamax),
                                        2 * Scale)
       /\ srch.s.Hdiff < 0 =>
            /\ srch'.s.betamax = srch.s.beta
            /\ srch'.s.betamin = srch.s.betamin
            /\ srch'.s.beta = IF srch.s.betamin \in {PosInf, NegInf}
                              THEN FDiv(srch.s.beta, 2 * Scale)
                              ELSE FDiv(FAdd(srch.s.beta, srch.s.betamin),
                                        2 * Scale)
       /\ srch.s.Hdiff # 0
       /\ Recomputed]_vars

\* C14: the search has just taken a midpoint step upwards between two
\* finite bounds
C14_Witness ==
  /\ srch.pc = "loop"
  /\ srch.last = "up"
  /\ IsFin(srch.s.betamin) /\ IsFin(srch.s.betamax)
  /\ srch.s.betamin < srch.s.beta /\ srch.s.beta < srch.s.betamax
  /\ 2 * srch.s.beta \in {srch.s.betamin + srch.s.betamax,
                          srch.s.betamin + srch.s.betamax - 1}

\* C15: a step taken with an Hdiff that is NaN divides beta by 10 and leaves
\* betamin and betamax as they were; the kernel and Hdiff are those of the
\* new beta and tries grows by one.
C15_NaNStep ==
  [][(IsSearchStep /\ IsNaN(srch.s.Hdiff)) =>
       /\ srch'.s.beta = FDiv(srch.s.beta, 10 * Scale)
       /\ srch'.s.betamin = srch.s.betamin
       /\ srch'.s.betamax = srch.s.betamax
       /\ Recomputed]_vars

\* C15: the search has just taken a NaN step with a bound that was set
\* before it
C15_Witness ==
  /\ srch.last = "nan"
  /\ IsFin(srch.s.betamin)
  /\ Len(srch.Di) = 2
  /\ srch.s.tries < max_tries

\* the search is running or done, and no step of it was a NaN step
NoNaNStep == srch.pc # "off" /\ ~srch.nan_seen

\* beta lies between the bounds that are finite
InBracket(s) ==
  /\ IsFin(s.betamin) => s.betamin <= s.beta
  /\ IsFin(s.betamax) => s.beta <= s.betamax

\* C19: as long as no NaN step was taken beta is above zero, every
\* finite bound is a beta tried before, and beta lies strictly between the
\* bounds that are finite.
C19_StrictBracket ==
  NoNaNStep =>
    /\ srch.s.beta > 0
    /\ IsFin(srch.s.betamin) =>
         (srch.s.betamin \in srch.tried /\ srch.s.betamin < srch.s.beta)
    /\ IsFin(srch.s.betamax) =>
         (srch.s.betamax \in srch.tried /\ srch.s.beta < srch.s.betamax)

\* What the search does keep (C19 without strictness): as long as no NaN
\* step was taken beta is a number not below zero, and zero only once halving
\* has underflowed it; every finite bound is a beta tried before; beta lies
\* between the bounds that are finite, a bound included.  A step that is not
\* a NaN step leaves beta between the bounds when it was between them.
BracketUntilNaNStep ==
  /\ [](NoNaNStep =>
          /\ ~IsNaN(srch.s.beta)
          /\ srch.s.beta >= 0
          /\ srch.s.beta = 0 => srch.last = "down"
          /\ IsFin(srch.s.betamin) => srch.s.betamin \in srch.tried
          /\ IsFin(srch.s.betamax) => srch.s.betamax \in srch.tried
          /\ InBracket(srch.s))
  /\ [][(IsSearchStep /\ ~IsNaN(srch.s.Hdiff) /\ InBracket(srch.s)) =>
          InBracket(srch'.s)]_vars

\* after steps in both directions and no NaN step, beta lies strictly
\* between two finite bounds tried before
BracketedStrictly ==
  /\ NoNaNStep
  /\ srch.s.tries >= 3
  /\ srch.s.betamin \in srch.tried /\ srch.s.betamax \in srch.tried
  /\ 0 < srch.s.betamin
  /\ srch.s.betamin < srch.s.beta
  /\ srch.s.beta < srch.s.betamax
  /\ IsFin(srch.s.betamax)

(***************************************************************************)
(* PermSpec: the four stages on X and on X permuted by p, side by side.    *)
(* The client permutes the rows of X, or (both) its rows and its columns.  *)
(***************************************************************************)
RowPermutations(n) ==
  {p \in [1..n -> 1..n] : \A i, j \in 1..n : p[i] = p[j] => i = j}

\* row i of the result is row p[i] of M
PermuteRows(M, p) == Array([i \in 1..NRows(M) |-> M[p[i]]])

\* entry (i, j) of the result is entry (p[i], p[j]) of M
PermuteBoth(M, p) ==
  Array([i \in 1..NRows(M) |-> Array([j \in 1..NRows(M) |-> M[p[i]][p[j]]])])

PermInit ==
  /\ \E X \in PipeInputs, m \in Metrics, u \in Perplexities, e \in EpsValues,
        both \in BOOLEAN :
       \E p \in RowPermutations(NRows(X)) :
         /\ both => NRows(X) = NCols(X)
         /\ perm = [stage |-> "X", p |-> Array(p), both |-> both, metric |-> m,
                    perplexity |-> u, eps |-> e,
                    X |-> X,
                    PX |-> IF both THEN PermuteBoth(X, p)
                           ELSE PermuteRows(X, p),
                    D |-> <<>>, A |-> <<>>, B |-> <<>>, O |-> <<>>,
                    PD |-> <<>>, PA |-> <<>>, PB |-> <<>>, PO |-> <<>>]
  /\ det = SOSInit(0, 0, "euclidean", 0)
  /\ call = NoCall
  /\ fitted_on = <<>>
  /\ refit = FALSE
  /\ pipe = NoPipe
  /\ srch = NoSrch
  /\ memo = NoMemo
  /\ rows = NoRows

PermX2D ==
  /\ perm.stage = "X"
  /\ \E d \in {x2d(perm.X, perm.metric)}, pd \in {x2d(perm.PX, perm.metric)} :
       perm' = [perm EXCEPT
                  !.stage = IF d.err = "ok" /\ pd.err = "ok"
                            THEN "D" ELSE "failed",
                  !.D = d.D, !.PD = pd.D]
  /\ UNCHANGED <<det, call, fitted_on, refit, pipe, srch, memo, rows>>

PermD2A ==
  /\ perm.stage = "D"
  /\ perm' = [perm EXCEPT !.stage = "A",
                          !.A = d2a(perm.D, perm.perplexity, perm.eps),
                          !.PA = d2a(perm.PD, perm.perplexity, perm.eps)]
  /\ UNCHANGED <<det, call, fitted_on, refit, pipe, srch, memo, rows>>

PermA2B ==
  /\ perm.stage = "A"
  /\ perm' = [perm EXCEPT !.stage = "B", !.B = a2b(perm.A),
                          !.PB = a2b(perm.PA)]
  /\ UNCHANGED <<det, call, fitted_on, refit, pipe, srch, memo, rows>>

PermB2O ==
  /\ perm.stage = "B"
  /\ perm' = [perm EXCEPT !.stage = "O", !.O = b2o(perm.B),
                          !.PO = b2o(perm.PB)]
  /\ UNCHANGED <<det, call, fitted_on, refit, pipe, srch, memo, rows>>

PermNext == PermX2D \/ PermD2A \/ PermA2B \/ PermB2O

PermSpec == PermInit /\ [][PermNext]_vars

(***************************************************************************)
(* The claims about the permuted run (PermSpec).                           *)
(***************************************************************************)
\* the stages the run has behind it
PermHas(stage) ==
  \/ stage = "D" /\ perm.stage \in {"D", "A", "B", "O"}
  \/ stage = "A" /\ perm.stage \in {"A", "B", "O"}
  \/ stage = "B" /\ perm.stage \in {"B", "O"}
  \/ stage = "O" /\ perm.stage = "O"

\* two score vectors that differ by the rounding of their products at most:
\* one unit in the last place for every factor
ScoresNear(u, v) ==
  /\ Len(u) = Len(v)
  /\ \A j \in 1..Len(u) :
       \/ u[j] = v[j]
       \/ IsFin(u[j]) /\ IsFin(v[j]) /\ Mag(u[j] - v[j]) <= Len(u)

\* the matrices and the scores of the permuted run are those of the run on X,
\* permuted by p; the scores are products taken in another order and agree
\* up to their rounding
Equivariant ==
  /\ PermHas("D") => perm.PD = PermuteBoth(perm.D, perm.p)
  /\ PermHas("A") => perm.PA = PermuteBoth(perm.A, perm.p)
  /\ PermHas("B") => perm.PB = PermuteBoth(perm.B, perm.p)
  /\ PermHas("O") => ScoresNear(perm.PO, PermuteRows(perm.O, perm.p))

\* C11 as stated: under every metric, permuting the rows of X by p gives D,
\* A and B permuted by p on both axes and O permuted by p.
C11_Original == (perm.stage # "off" /\ ~perm.both) => Equivariant

\* C11 amended: under the euclidean and the scipy metrics permuting the rows
\* of X by p gives D, A and B permuted by p on both axes and O permuted by
\* p (O up to the rounding of its products); under the pass-through metric
\* "none" this holds when the rows and the columns of X are permuted
\* together, and permuting the rows alone gives a D whose rows alone are
\* permuted.
C11_EquivariantFromD ==
  perm.stage # "off" =>
    /\ (perm.metric # "none" /\ ~perm.both) => Equivariant
    /\ (perm.metric = "none" /\ perm.both) => Equivariant
    /\ (perm.metric = "none" /\ ~perm.both /\ PermHas("D")) =>
         perm.PD = PermuteRows(perm.D, perm.p)

\* C11: the scores of three points under a permutation that moves them, the
\* scores not all equal
C11_Witness ==
  /\ perm.stage = "O"
  /\ ~perm.both
  /\ perm.metric = "euclidean"
  /\ Len(perm.O) = 3
  /\ perm.p = <<2, 3, 1>>
  /\ \A j \in 1..3 : IsFin(perm.O[j])
  /\ perm.O[1] # perm.O[2]
  /\ perm.PO # perm.O
  /\ perm.PO = PermuteRows(perm.O, perm.p)
(***************************************************************************)
(* RowsSpec: _d2a with its rows taken in any order and interleaved.  Every *)
(* row i has the variables that lines 188-195 set anew for it (betamin,    *)
(* betamax, thisA, Hdiff, tries) and its entry beta[i] of line 183.  The   *)
(* first MaxSteps iterations of a row are taken one by one, between the    *)
(* steps of other rows; the rest of its loop is taken in one step.  seq is *)
(* the matrix _d2a returns for D, its rows taken one after the other.      *)
(***************************************************************************)
MaxSteps == 1

\* line 182: A = np.zeros((n, n))
Zeros(n) == Array([i \in 1..n |-> Array([j \in 1..n |-> 0])])

RowsInit ==
  /\ \E X \in Inputs, m \in {"euclidean", "none"}, u \in Perplexities,
        e \in EpsValues :
       /\ check_array(X) = "ok"
       /\ \E d \in {x2d(X, m)} :
            /\ d.err = "ok"
            /\ rows = [pc |-> "run", D |-> d.D, perplexity |-> u,
                       logU |-> FLn(u), eps |-> e,
                       A |-> Zeros(NRows(d.D)),
                       st |-> Array([i \in 1..NRows(d.D) |->
                                      [pc |-> "idle", s |-> <<>>]]),
                       seq |-> d2a(d.D, u, e)]
  /\ det = SOSInit(0, 0, "euclidean", 0)
  /\ call = NoCall
  /\ fitted_on = <<>>
  /\ refit = FALSE
  /\ pipe = NoPipe
  /\ srch = NoSrch
  /\ memo = NoMemo
  /\ perm = NoPerm

\* lines 188-195 for row i
RowBegin(i) ==
  /\ rows.pc = "run"
  /\ rows.st[i].pc = "idle"
  /\ rows' = [rows EXCEPT
                !.st[i] = [pc |-> "loop",
                           s |-> RowStart(RowOf(rows.D, i), rows.logU)]]
  /\ UNCHANGED <<det, call, fitted_on, refit, pipe, srch, memo, perm>>

\* one iteration of row i's loop
RowStep(i) ==
  /\ rows.pc = "run"
  /\ rows.st[i].pc = "loop"
  /\ rows.st[i].s.tries < MaxSteps
  /\ LoopCond(rows.st[i].s, rows.eps)
  /\ rows' = [rows EXCEPT
                !.st[i].s = LoopBody(@, RowOf(rows.D, i), rows.logU)]
  /\ UNCHANGED <<det, call, fitted_on, refit, pipe, srch, memo, perm>>

\* the remaining iterations of row i's loop
RowFinish(i) ==
  /\ rows.pc = "run"
  /\ rows.st[i].pc = "loop"
  /\ rows.st[i].s.tries >= MaxSteps \/ ~LoopCond(rows.st[i].s, rows.eps)
  /\ rows' = [rows EXCEPT
                !.st[i] = [pc |-> "ready",
                           s |-> Iterate(max_tries, rows.st[i].s,
                                         RowOf(rows.D, i), rows.logU,
                                         rows.eps)]]
  /\ UNCHANGED <<det, call, fitted_on, refit, pipe, srch, memo, perm>>

\* line 219 for row i
RowWrite(i) ==
  /\ rows.pc = "run"
  /\ rows.st[i].pc = "ready"
  /\ rows' = [rows EXCEPT
                !.st[i].pc = "written",
                !.A[i] = WriteRow(rows.st[i].s.thisA, i)]
  /\ UNCHANGED <<det, call, fitted_on, refit, pipe, srch, memo, perm>>

RowsNext ==
  \E i \in 1..NRows(rows.D) :
    RowBegin(i) \/ RowStep(i) \/ RowFinish(i) \/ RowWrite(i)

RowsSpec == RowsInit /\ [][RowsNext]_vars

(***************************************************************************)
(* The claims about the rows (RowsSpec).                                   *)
(***************************************************************************)
\* C16: whatever the order and the interleaving of the rows, the search of a
\* row starts from beta = 1, betamin = -inf, betamax = +inf, tries = 0; a row
\* that is written is the row _d2a computes from row i of D, the perplexity
\* and eps, one row after the other; a row not yet written is still zero.
C16_RowsIndependent ==
  rows.pc = "run" =>
    \A i \in 1..NRows(rows.D) :
      /\ (rows.st[i].pc = "loop" /\ rows.st[i].s.tries = 0) =>
           /\ rows.st[i].s.beta = Scale
           /\ rows.st[i].s.betamin = NegInf
           /\ rows.st[i].s.betamax = PosInf
      /\ rows.st[i].pc = "written" => rows.A[i] = rows.seq[i]
      /\ rows.st[i].pc # "written" =>
           \A j \in 1..NRows(rows.D) : rows.A[i][j] = 0

\* C16: row 3 is written, with a kernel that is not constant, while row 1
\* is in its loop after an iteration and row 2 has not begun
C16_Witness ==
  /\ rows.pc = "run"
  /\ NRows(rows.D) = 3
  /\ rows.st[3].pc = "written"
  /\ rows.st[1].pc = "loop" /\ rows.st[1].s.tries = 1
  /\ rows.st[2].pc = "idle"
  /\ rows.A[3] = rows.seq[3]
  /\ rows.A[3][1] # rows.A[3][2]
(***************************************************************************)
(* DistSpec: _x2d on two points of one coordinate each, the coordinates on *)
(* the grid of the numbers from 0 to MaxCoord units: points close enough   *)
(* for the rounding of the squares and of the product to show.             *)
(***************************************************************************)
MaxCoord == 48

DistInit ==
  /\ \E a \in 0..MaxCoord, b \in 0..MaxCoord, m \in Metrics :
       pipe = [stage |-> "X", X |-> << <<a>>, <<b>> >>, metric |-> m,
               perplexity |-> 0, eps |-> 0, err |-> "ok",
               D |-> <<>>, A |-> <<>>, B |-> <<>>, O |-> <<>>]
  /\ det = SOSInit(0, 0, "euclidean", 0)
  /\ call = NoCall
  /\ fitted_on = <<>>
  /\ refit = FALSE
  /\ srch = NoSrch
  /\ memo = NoMemo
  /\ perm = NoPerm
  /\ rows = NoRows

DistSpec == DistInit /\ [][PipeX2D]_vars

(***************************************************************************)
(* The claims about the distances (DistSpec).                              *)
(***************************************************************************)
\* ||x_i||^2 + ||x_j||^2 - 2 x_i.x_j as line 153 evaluates it
UnderRoot(X, i, j) ==
  FAdd(FAdd(FMul(-2 * Scale, Gram(X)[j][i]), SumSquares(X)[i]),
       SumSquares(X)[j])

EuclideanD == pipe.stage = "D" /\ pipe.metric = "euclidean"

\* C18 as stated: when the value under the root comes out negative, D[i, j]
\* is 0.
C18_Original ==
  EuclideanD =>
    \A i, j \in 1..NRows(pipe.X) :
      UnderRoot(pipe.X, i, j) < 0 => pipe.D[i][j] = 0

\* C18 amended: the value r under the root is not clamped at zero, its
\* absolute value is taken: D[i, j] is sqrt(|r|), and when r comes out
\* negative D[i, j] is sqrt(-r), a number above zero.
C18_RootOfAbsoluteValue ==
  EuclideanD =>
    \A i, j \in 1..NRows(pipe.X) :
      \E r \in {UnderRoot(pipe.X, i, j)} :
        /\ pipe.D[i][j] = FSqrt(IF r < 0 THEN -r ELSE r)
        /\ r < 0 => pipe.D[i][j] > 0

\* C18: the distance of two points whose value under the root came out
\* negative
C18_Witness ==
  /\ EuclideanD
  /\ UnderRoot(pipe.X, 1, 2) < 0
  /\ pipe.X[1] # pipe.X[2]
  /\ pipe.D[1][2] > 0
====
